---- MODULE Spec2Model ----
(***************************************************************************)
(* The numeric format renderer of toolstr (format_num/interface.rs) and    *)
(* the cell / column format wrappers of etop (cell_format.rs, dfs/types.rs)*)
(*                                                                         *)
(* A Rust String is modelled as a sequence of characters; a character is a *)
(* one-element TLA+ string, except the fill character U+00E9, which stands *)
(* for a character whose UTF-8 encoding is two bytes long.                 *)
(***************************************************************************)
EXTENDS Integers, Sequences, FiniteSets, TLC

\* ------------------------------------------------------------- bounds
\* Largest width of a specifier drawn by Init.
MaxWidth == 6
\* Largest precision of a specifier drawn by Init.
MaxPrecision == 2
\* Largest min_width / max_width handed to a builder call.
MaxColWidth == 1

\* ------------------------------------------------------ characters
DigitChars == <<"0", "1", "2", "3", "4", "5", "6", "7", "8", "9">>

HexLower == <<"0", "1", "2", "3", "4", "5", "6", "7", "8", "9",
              "a", "b", "c", "d", "e", "f">>

HexUpper == <<"0", "1", "2", "3", "4", "5", "6", "7", "8", "9",
              "A", "B", "C", "D", "E", "F">>

\* c is one of "0123456789" (interface.rs:96).
IsDigit(c) == \E i \in 1..10 : DigitChars[i] = c

\* A fill character that takes two bytes in UTF-8.
EAcute == "U+00E9"

\* The number of bytes of character c in a String.
Utf8Len(c) == IF c = EAcute THEN 2 ELSE 1

RECURSIVE ByteLen(_)
\* str::len(): the length of a String in bytes.
ByteLen(s) == IF s = <<>> THEN 0 ELSE Utf8Len(Head(s)) + ByteLen(Tail(s))

\* n copies of character c.
Repeat(c, n) == [i \in 1..n |-> c]

\* The characters of a run of decimal digit values.
Chars(ds) == [i \in 1..Len(ds) |-> DigitChars[ds[i] + 1]]

RECURSIVE Digits(_)
\* The decimal digit values of a natural number, most significant first.
Digits(n) == IF n < 10 THEN <<n>> ELSE Digits(n \div 10) \o <<n % 10>>

\* ------------------------------------------------ decimal magnitudes
\* The absolute value of a finite f64 is held as its decimal expansion:
\* ip the digits before the point (no leading zero but a lone 0), fp the
\* digits after it.  The expansion of a value that is not a short decimal
\* is cut after digits that no rounding below reaches.
Magnitudes ==
    { [ip |-> <<0>>, fp |-> <<>>],                             \* 0.0
      [ip |-> <<0>>, fp |-> <<0, 4>>],                         \* 0.04
      [ip |-> <<2, 5, 5>>, fp |-> <<>>],                       \* 255.0
      [ip |-> <<1, 2, 3, 4, 5, 6, 7>>, fp |-> <<>>],           \* 1234567.0
      [ip |-> <<1, 2, 3, 7, 9, 4, 0, 0, 3, 9, 2, 8, 5, 3, 8, 0, 2, 7, 4,
                8, 9, 9, 1, 2, 4, 2, 2, 4>>, fp |-> <<>>],     \* 2^90
      [ip |-> <<0>>,
       fp |-> Repeat(0, 27) \o <<8, 0, 7, 7, 9, 3, 5, 6>>] }   \* 2^-90

\* The inputs of format: the sign bit and the magnitude of an f64.
Inputs == [neg : BOOLEAN, mag : Magnitudes]

RECURSIVE StripZeros(_)
StripZeros(ds) ==
    IF Len(ds) > 1 /\ Head(ds) = 0 THEN StripZeros(Tail(ds)) ELSE ds

\* m * 10^n: the decimal point moved n places to the right (left for n < 0).
Shift(m, n) ==
    LET D   == m.ip \o m.fp
        pos == Len(m.ip) + n
    IN  IF pos <= 0
        THEN [ip |-> <<0>>, fp |-> Repeat(0, -pos) \o D]
        ELSE IF pos >= Len(D)
        THEN [ip |-> StripZeros(D \o Repeat(0, pos - Len(D))), fp |-> <<>>]
        ELSE [ip |-> StripZeros(SubSeq(D, 1, pos)),
              fp |-> SubSeq(D, pos + 1, Len(D))]

RECURSIVE Increment(_)
\* A digit run plus one, with carry.
Increment(ds) ==
    IF ds = <<>> THEN <<1>>
    ELSE IF ds[Len(ds)] < 9
         THEN SubSeq(ds, 1, Len(ds) - 1) \o <<ds[Len(ds)] + 1>>
         ELSE Increment(SubSeq(ds, 1, Len(ds) - 1)) \o <<0>>

\* m rounded to p digits after the point, ties to even, as the float
\* formatting of format!("{:.p$}") rounds the exact value.
RoundTo(m, p) ==
    LET kept == m.ip \o [i \in 1..p |-> IF i <= Len(m.fp) THEN m.fp[i] ELSE 0]
        rest == SubSeq(m.fp, p + 1, Len(m.fp))
        up   == /\ Len(rest) > 0
                /\ \/ rest[1] > 5
                   \/ /\ rest[1] = 5
                      /\ \/ \E i \in 2..Len(rest) : rest[i] # 0
                         \/ kept[Len(kept)] % 2 = 1
        r    == IF up THEN Increment(kept) ELSE kept
    IN  [ip |-> SubSeq(r, 1, Len(r) - p), fp |-> SubSeq(r, Len(r) - p + 1, Len(r))]

\* format!("{:.1$}", v, p) of a non-negative f64.
FixedPoint(m, p) ==
    LET r == RoundTo(m, p)
    IN  Chars(r.ip) \o (IF p > 0 THEN <<".">> \o Chars(r.fp) ELSE <<>>)

\* floor(log10(v)) of a magnitude; 0 for zero.
Exponent10(m) ==
    IF m.ip # <<0>> THEN Len(m.ip) - 1
    ELSE IF \A i \in 1..Len(m.fp) : m.fp[i] = 0 THEN 0
    ELSE -(CHOOSE k \in 1..Len(m.fp) :
               m.fp[k] # 0 /\ \A j \in 1..(k - 1) : m.fp[j] = 0)

\* ------------------------------------------------------- FormatSpec
\* The format types the renderer tells apart; "" is the absent type (and
\* every type letter that takes the default branch).
FormatTypes == {"%", "b", "o", "O", "x", "X", "f", "e", "E", "s", ""}

\* The resolved specifiers: every field has a concrete value, and a
\* requested zero-fill resolves to fill "0" with sign-aware alignment.
FormatSpecs ==
    { f \in [fill : {"*", EAcute, "0"}, align : {"<", ">", "^", "="},
             sign : {"-", "+", " "}, symbol : {"", "#"}, zero : BOOLEAN,
             width : 0..MaxWidth, grouping : BOOLEAN,
             precision : 0..MaxPrecision, format_type : FormatTypes] :
        IF f.zero THEN f.fill = "0" /\ f.align = "=" ELSE f.fill # "0" }

\* The SI prefix table; index 8 (from 0) is "no prefix".
PREFIXES == << <<"y">>, <<"z">>, <<"a">>, <<"f">>, <<"p">>, <<"n">>, <<"u">>,
               <<"m">>, <<>>, <<"k">>, <<"M">>, <<"G">>, <<"T">>, <<"P">>,
               <<"E">>, <<"Z">>, <<"Y">> >>

DECIMAL_CHAR == "."

GROUP_DELIMITER_CHAR == ","

\* ------------------------------------------------- core conversion
RECURSIVE NatOf(_)
\* The natural number a digit run spells.
NatOf(ds) == IF ds = <<>> THEN 0
             ELSE 10 * NatOf(SubSeq(ds, 1, Len(ds) - 1)) + ds[Len(ds)]

RECURSIVE RadixDigits(_, _)
RadixDigits(n, base) ==
    IF n < base THEN <<n>> ELSE RadixDigits(n \div base, base) \o <<n % base>>

\* The digits of i64::MAX = 2^63 - 1 in base 2^k.
MaxRadixDigits(k) ==
    (IF 63 % k > 0 THEN <<2 ^ (63 % k) - 1>> ELSE <<>>) \o Repeat(2 ^ k - 1, 63 \div k)

\* format!("{:#b}", v.abs() as i64)[2..] and its octal and hex kin: the cast
\* truncates toward zero and saturates at i64::MAX (any magnitude of twenty
\* or more digits); the two characters dropped are the radix prefix.
Radix(m, k, table) ==
    LET ds == IF Len(m.ip) >= 20 THEN MaxRadixDigits(k)
              ELSE RadixDigits(NatOf(m.ip), 2 ^ k)
    IN  [i \in 1..Len(ds) |-> table[ds[i] + 1]]

\* process::get_formatted_exp_value: d.ddd, the exponent letter, the
\* exponent; a decimal point is forced when include_decimal_point is set.
get_formatted_exp_value(format_type, m, precision, include_decimal_point) ==
    LET D     == m.ip \o m.fp
        nz    == {i \in 1..Len(D) : D[i] # 0}
        k     == IF nz = {} THEN 1 ELSE CHOOSE i \in nz : \A j \in nz : i <= j
        e0    == IF nz = {} THEN 0 ELSE Len(m.ip) - k
        r     == RoundTo([ip |-> <<D[k]>>, fp |-> SubSeq(D, k + 1, Len(D))], precision)
        carry == Len(r.ip) = 2
        e     == IF carry THEN e0 + 1 ELSE e0
        fp    == IF carry THEN SubSeq(<<0>> \o r.fp, 1, precision) ELSE r.fp
        ipc   == IF carry THEN <<"1">> ELSE Chars(r.ip)
    IN  ipc
        \o (IF precision > 0 THEN <<DECIMAL_CHAR>> \o Chars(fp)
            ELSE IF include_decimal_point THEN <<DECIMAL_CHAR>> ELSE <<>>)
        \o <<format_type>>
        \o (IF e < 0 THEN <<"-">> ELSE <<>>)
        \o Chars(Digits(IF e < 0 THEN -e ELSE e))

\* process::format_si_prefix: the magnitude scaled into its power-of-1000
\* bucket, clamped to the table, and rendered fixed-point.
format_si_prefix(m, precision) ==
    LET b  == Exponent10(m) \div 3
        si == IF b < -8 THEN -8 ELSE IF b > 8 THEN 8 ELSE b
    IN  [val |-> FixedPoint(Shift(m, -3 * si), precision), si_prefix |-> si]

\* interface.rs:15-68: unit_of_measurement, value and si_prefix_exponent.
\* prefix_index is the index taken into PREFIXES (8 when none is taken).
CoreConversion(format_spec, m) ==
    LET t   == format_spec.format_type
        p   == format_spec.precision
        alt == format_spec.symbol = "#"
        si  == format_si_prefix(m, p)
    IN  [unit_of_measurement |-> IF t = "%" THEN <<"%">> ELSE <<>>,
         prefix_index |-> IF t = "s" THEN 8 + si.si_prefix ELSE 8,
         value |->
            CASE t = "%" -> FixedPoint(Shift(m, 2), p)
              [] t = "b" -> Radix(m, 1, HexLower)
              [] t \in {"o", "O"} -> Radix(m, 3, HexLower)
              [] t = "x" -> Radix(m, 4, HexLower)
              [] t = "X" -> Radix(m, 4, HexUpper)
              [] t = "f" /\ alt ->
                    FixedPoint(m, p) \o (IF p = 0 THEN <<DECIMAL_CHAR>> ELSE <<>>)
              [] t \in {"e", "E"} -> get_formatted_exp_value(t, m, p, alt)
              [] t = "s" -> si.val
              [] OTHER -> FixedPoint(m, p)]

\* ---------------------------------------------------- the renderer
\* The number of consecutive digit characters of s from position i on.
DigitRun(s, i) ==
    LET stops == {j \in i..Len(s) : ~IsDigit(s[j])}
    IN  IF stops = {} THEN Len(s) - i + 1
        ELSE (CHOOSE j \in stops : \A k \in stops : j <= k) - i

\* str::parse::<f64>() of a rendered value: "err" when the text is not a
\* float literal ([sign] digits [. digits] [e [sign] digits], a digit on one
\* side of the point at least), else whether the float it spells is zero.
ParseF64(s) ==
    LET a    == IF Len(s) >= 1 /\ s[1] \in {"+", "-"} THEN 2 ELSE 1
        n1   == DigitRun(s, a)
        dot  == a + n1 <= Len(s) /\ s[a + n1] = "."
        n2   == IF dot THEN DigitRun(s, a + n1 + 1) ELSE 0
        q    == a + n1 + (IF dot THEN 1 + n2 ELSE 0)
        exp  == q <= Len(s) /\ s[q] \in {"e", "E"}
        es   == IF exp /\ q + 1 <= Len(s) /\ s[q + 1] \in {"+", "-"} THEN q + 2 ELSE q + 1
        n3   == IF exp THEN DigitRun(s, es) ELSE 0
        end  == IF exp THEN es + n3 ELSE q
        zero == \A i \in a..(q - 1) : s[i] \in {"0", "."}
    IN  IF n1 + n2 = 0 \/ (exp /\ n3 = 0) \/ end # Len(s) + 1 THEN "err"
        ELSE IF zero THEN "zero" ELSE "nonzero"

\* interface.rs:71-74: whether value.parse::<f64>() is evaluated, the &&
\* chain reaching it only for a negative input of a type other than x and X.
ParsesValue(format_spec, negative) ==
    format_spec.format_type \notin {"x", "X"} /\ negative

\* HideSign hiding the sign under the "-" policy alone.
HideSignOnlyMinus(format_spec, negative, value) ==
    IF /\ format_spec.format_type # "x"
       /\ format_spec.format_type # "X"
       /\ negative
       /\ ParseF64(value) = "zero"
       /\ format_spec.sign = "-"
    THEN FALSE
    ELSE negative

\* HideSign exempting the lowercase hex type alone.
HideSignLowerHexOnly(format_spec, negative, value) ==
    IF /\ format_spec.format_type # "x"
       /\ negative
       /\ ParseF64(value) = "zero"
       /\ format_spec.sign # "+"
    THEN FALSE
    ELSE negative

\* interface.rs:70-78: value_is_negative after the zero check.
\* A negative value that rounds to zero loses its sign unless "+" is asked.
HideSign(format_spec, negative, value) ==
    IF /\ format_spec.format_type # "x"
       /\ format_spec.format_type # "X"
       /\ negative
       /\ ParseF64(value) = "zero"
       /\ format_spec.sign # "+"
    THEN FALSE
    ELSE negative

\* process::get_sign_prefix: "-" for a negative value, else by the policy.
get_sign_prefix(value_is_negative, format_spec) ==
    IF value_is_negative THEN <<"-">>
    ELSE IF format_spec.sign = "+" THEN <<"+">>
    ELSE IF format_spec.sign = " " THEN <<" ">>
    ELSE <<>>

\* interface.rs:82-92: leading_part, the radix prefix of the alternate form.
LeadingPart(format_spec) ==
    IF format_spec.symbol = "#"
    THEN CASE format_spec.format_type = "b" -> <<"0", "b">>
           [] format_spec.format_type = "o" -> <<"0", "o">>
           [] format_spec.format_type = "x" -> <<"0", "x">>
           [] format_spec.format_type = "O" -> <<"0", "O">>
           [] format_spec.format_type = "X" -> <<"0", "x">>
           [] OTHER -> <<>>
    ELSE <<>>

\* interface.rs:94-101: the leading digits stay in value, the rest of the
\* text, from the first character that is no digit, is the decimal part.
SplitValue(value) ==
    LET n == DigitRun(value, 1)
    IN  [value |-> SubSeq(value, 1, n), decimal_part |-> SubSeq(value, n + 1, Len(value))]

RECURSIVE GroupUpTo(_, _, _, _)
\* The groups of value[1..i], joined by the delimiter; length is what the
\* groups to the right take, width the space to fill (0: no limit).
GroupUpTo(value, i, length, width) ==
    LET g     == IF width > 0 /\ length + 3 + 1 > width
                 THEN (IF width - length > 1 THEN width - length ELSE 1)
                 ELSE 3
        from  == IF i - g > 0 THEN i - g ELSE 0
        chunk == SubSeq(value, from + 1, i)
    IN  IF from = 0 \/ (width > 0 /\ length + g + 1 > width)
        THEN chunk
        ELSE GroupUpTo(value, from, length + g + 1, width)
             \o <<GROUP_DELIMITER_CHAR>> \o chunk

\* process::group_value: thousands separators from the right; with a width
\* the zero padding is grouped only as far as the width asks and the result
\* never starts with a separator.
group_value(value, width) ==
    IF value = <<>> THEN <<>> ELSE GroupUpTo(value, Len(value), 0, width)

\* Padding measured without the prefix.
PaddingIgnoringPrefix(format_spec, prefix, value, suffix) ==
    LET length == ByteLen(value) + ByteLen(suffix)
    IN  IF length < format_spec.width
        THEN Repeat(format_spec.fill, format_spec.width - length)
        ELSE <<>>

\* interface.rs:116-122: the padding.
Padding(format_spec, prefix, value, suffix) ==
    LET length == ByteLen(prefix) + ByteLen(value) + ByteLen(suffix)
    IN  IF length < format_spec.width
        THEN Repeat(format_spec.fill, format_spec.width - length)
        ELSE <<>>

\* interface.rs:128-132: the width handed to group_value after padding.
GroupWidth(format_spec, padding, suffix) ==
    IF padding # <<>> THEN format_spec.width - ByteLen(suffix) ELSE 0

\* Whether byte offset b of s falls between two characters.
IsCharBoundary(s, b) == \E i \in 0..Len(s) : ByteLen(SubSeq(s, 1, i)) = b

\* &s[..b] for a byte offset b on a character boundary.
SliceTo(s, b) ==
    SubSeq(s, 1, CHOOSE i \in 0..Len(s) : ByteLen(SubSeq(s, 1, i)) = b)

\* &s[b..] for a byte offset b on a character boundary.
SliceFrom(s, b) ==
    SubSeq(s, 1 + (CHOOSE i \in 0..Len(s) : ByteLen(SubSeq(s, 1, i)) = b), Len(s))

\* Assemble with the odd padding character of a centred value put first.
AssembleCenterLeading(format_spec, prefix, value, suffix, padding) ==
    CASE format_spec.align = "<" -> prefix \o value \o suffix \o padding
      [] format_spec.align = "=" -> prefix \o padding \o value \o suffix
      [] format_spec.align = "^" ->
            SliceTo(padding, (ByteLen(padding) + 1) \div 2)
            \o prefix \o value \o suffix
            \o SliceFrom(padding, (ByteLen(padding) + 1) \div 2)
      [] OTHER -> padding \o prefix \o value \o suffix

\* interface.rs:137-149: the parts put together by alignment.
Assemble(format_spec, prefix, value, suffix, padding) ==
    CASE format_spec.align = "<" -> prefix \o value \o suffix \o padding
      [] format_spec.align = "=" -> prefix \o padding \o value \o suffix
      [] format_spec.align = "^" ->
            SliceTo(padding, ByteLen(padding) \div 2)
            \o prefix \o value \o suffix
            \o SliceFrom(padding, ByteLen(padding) \div 2)
      [] OTHER -> padding \o prefix \o value \o suffix

\* The places where format panics: the unwrap of a failed parse (74), an
\* index outside PREFIXES (60), usize underflow (119, 129) and a slice of
\* the padding off a character boundary (142, 146).
Panics(format_spec, negative, core, length, padding, suffix) ==
    \/ ParsesValue(format_spec, negative) /\ ParseF64(core.value) = "err"
    \/ core.prefix_index < 0 \/ core.prefix_index >= Len(PREFIXES)
    \/ format_spec.grouping /\ format_spec.zero /\ padding # <<>>
        /\ format_spec.width < ByteLen(suffix)
    \/ format_spec.align = "^"
        /\ ~IsCharBoundary(padding, ByteLen(padding) \div 2)

\* interface.rs:124-150: grouping after padding under zero-fill, then the
\* assembly; the record holds the locals of format as they stand at the
\* return (or at the panic).  pad is the padding computed on line 118.
Finish(format_spec, in, core, negative, sign, split, suffix, grouped, pad) ==
    LET late    == format_spec.grouping /\ format_spec.zero
        leading == LeadingPart(format_spec)
        value   == IF late
                   THEN group_value(pad \o grouped, GroupWidth(format_spec, pad, suffix))
                   ELSE grouped
        padding == IF late THEN <<>> ELSE pad
        panic   == Panics(format_spec, in.neg, core,
                          ByteLen(sign \o leading) + ByteLen(grouped) + ByteLen(suffix),
                          pad, suffix)
    IN  [panic |-> panic,
         rendered |-> core.value,
         value_is_negative |-> negative,
         sign_prefix |-> sign,
         leading_part |-> leading,
         prefix |-> sign \o leading,
         value |-> value,
         suffix |-> suffix,
         padding |-> padding,
         output |-> IF panic THEN <<>>
                    ELSE Assemble(format_spec, sign \o leading, value, suffix, padding)]

\* interface.rs:116-122: the padding of the prefix, the digits and the suffix.
Padded(format_spec, in, core, negative, sign, split, suffix, grouped) ==
    Finish(format_spec, in, core, negative, sign, split, suffix, grouped,
           Padding(format_spec, sign \o LeadingPart(format_spec), grouped, suffix))

\* interface.rs:103-114: prefix and suffix, and the digits grouped at once
\* unless zero-fill is asked for.  An index outside PREFIXES panics; the
\* suffix then stands without a prefix letter.
Grouped(format_spec, in, core, negative, split) ==
    Padded(format_spec, in, core, negative,
           get_sign_prefix(negative, format_spec),
           split,
           split.decimal_part
             \o PREFIXES[(IF core.prefix_index \in 0..(Len(PREFIXES) - 1)
                          THEN core.prefix_index ELSE 8) + 1]
             \o core.unit_of_measurement,
           IF format_spec.grouping /\ ~format_spec.zero
           THEN group_value(split.value, 0) ELSE split.value)

\* interface.rs:70-101: the zero check, the sign and the digit/decimal split.
Converted(format_spec, in, core) ==
    Grouped(format_spec, in, core,
            HideSign(format_spec, in.neg, core.value), SplitValue(core.value))

\* interface.rs:9-150: format.
Render(format_spec, in) ==
    Converted(format_spec, in, CoreConversion(format_spec, in.mag))

\* ------------------------------------------ cell and column formats
\* Widths handed to the builders.
Widths == 0..MaxColWidth

\* NumberFormat::new(), BinaryFormat::new(): the formats before any builder
\* call (the largest width stands for usize::MAX).
NumberFormatNew ==
    [min_width |-> 0, max_width |-> 2147483647, format_type |-> "Unset", precision |-> 6]

BinaryFormatNew == [min_width |-> 0, max_width |-> 2147483647]

\* The formatters a shorthand, a cell format or a column format may hold.
NumberFormats ==
    [min_width : Widths, max_width : Widths, format_type : {"Unset", "Decimal"},
     precision : {6}]

PlainFormats == [min_width : Widths, max_width : Widths]

\* cell_format.rs:6-13: CellFormatShorthand.
Shorthands ==
    [kind : {"Number"}, fmt : NumberFormats]
    \cup [kind : {"Binary", "String", "Bool", "Unknown"}, fmt : PlainFormats]

\* polars DataType, a sample of its variants.
DataTypes == {"Utf8", "Boolean", "Binary", "Int8", "Int64", "UInt32",
              "Float32", "Float64", "Date", "Null"}

\* DataType::is_integer (cell_format.rs:86).
is_integer(dtype) == dtype \in {"Int8", "Int64", "UInt32"}

\* DataType::is_float (cell_format.rs:91).
is_float(dtype) == dtype \in {"Float32", "Float64"}

\* From<UnknownFormat> for NumberFormat: only the width constraints carry.
UnknownIntoNumber(fmt) ==
    [NumberFormatNew EXCEPT !.min_width = fmt.min_width, !.max_width = fmt.max_width]

\* From<UnknownFormat> for StringFormat, BinaryFormat and BoolFormat.
UnknownIntoPlain(fmt) == [min_width |-> fmt.min_width, max_width |-> fmt.max_width]

\* cell_format.rs:40-56: CellFormatShorthand::min_width, every variant
\* passing the call to the formatter it holds.
ShorthandSetMinWidth(self, min_width) ==
    [self EXCEPT !.fmt = [self.fmt EXCEPT !.min_width = min_width]]

\* cell_format.rs:58-74: CellFormatShorthand::max_width.
ShorthandSetMaxWidth(self, max_width) ==
    [self EXCEPT !.fmt = [self.fmt EXCEPT !.max_width = max_width]]

\* finalize resolving every shorthand, a concrete one too, by the dtype.
finalizeByDtypeAlone(self, dtype) ==
    CASE dtype = "Utf8" ->
           [tag |-> "Ok", kind |-> "String", fmt |-> UnknownIntoPlain(self.fmt)]
      [] dtype = "Boolean" ->
           [tag |-> "Ok", kind |-> "Bool", fmt |-> UnknownIntoPlain(self.fmt)]
      [] dtype = "Binary" ->
           [tag |-> "Ok", kind |-> "Binary", fmt |-> UnknownIntoPlain(self.fmt)]
      [] dtype \notin {"Utf8", "Boolean", "Binary"} /\ is_integer(dtype) ->
           [tag |-> "Ok", kind |-> "Number",
            fmt |-> [UnknownIntoNumber(self.fmt) EXCEPT
                        !.format_type = "Decimal", !.precision = 0]]
      [] dtype \notin {"Utf8", "Boolean", "Binary"} /\ ~is_integer(dtype)
           /\ is_float(dtype) ->
           [tag |-> "Ok", kind |-> "Number",
            fmt |-> [UnknownIntoNumber(self.fmt) EXCEPT !.format_type = "Exponent"]]
      [] OTHER -> [tag |-> "Err", error |-> "UnsupportedDatatype"]

\* cell_format.rs:76-105: CellFormatShorthand::finalize.
finalize(self, dtype) ==
    CASE self.kind = "Number" -> [tag |-> "Ok", kind |-> "Number", fmt |-> self.fmt]
      [] self.kind = "Binary" -> [tag |-> "Ok", kind |-> "Binary", fmt |-> self.fmt]
      [] self.kind = "String" -> [tag |-> "Ok", kind |-> "String", fmt |-> self.fmt]
      [] self.kind = "Bool" -> [tag |-> "Ok", kind |-> "Bool", fmt |-> self.fmt]
      [] OTHER ->
         CASE dtype = "Utf8" ->
                [tag |-> "Ok", kind |-> "String", fmt |-> UnknownIntoPlain(self.fmt)]
           [] dtype = "Boolean" ->
                [tag |-> "Ok", kind |-> "Bool", fmt |-> UnknownIntoPlain(self.fmt)]
           [] dtype = "Binary" ->
                [tag |-> "Ok", kind |-> "Binary", fmt |-> UnknownIntoPlain(self.fmt)]
           [] dtype \notin {"Utf8", "Boolean", "Binary"} /\ is_integer(dtype) ->
                [tag |-> "Ok", kind |-> "Number",
                 fmt |-> [UnknownIntoNumber(self.fmt) EXCEPT
                             !.format_type = "Decimal", !.precision = 0]]
           [] dtype \notin {"Utf8", "Boolean", "Binary"} /\ ~is_integer(dtype)
                /\ is_float(dtype) ->
                [tag |-> "Ok", kind |-> "Number",
                 fmt |-> [UnknownIntoNumber(self.fmt) EXCEPT !.format_type = "Exponent"]]
           [] OTHER -> [tag |-> "Err", error |-> "UnsupportedDatatype"]

\* try_into handing a BinaryFormat to a caller asking for a StringFormat.
try_intoLossy(self, target) ==
    IF self.kind = target \/ (self.kind = "Binary" /\ target = "String")
    THEN [tag |-> "Ok", fmt |-> self.fmt]
    ELSE [tag |-> "Err", error |-> "MismatchedFormatType"]

\* cell_format.rs:154-204: TryInto<NumberFormat>, <StringFormat>,
\* <BinaryFormat> and <BoolFormat> for CellFormat; target names the kind of
\* formatter asked for.
try_into(self, target) ==
    IF self.kind = target
    THEN [tag |-> "Ok", fmt |-> self.fmt]
    ELSE [tag |-> "Err", error |-> "MismatchedFormatType"]

\* dfs/types.rs:38-48, 95-97: ColumnFormat::new().  None is the empty Option.
None == [some |-> FALSE]

Some(v) == [some |-> TRUE, value |-> v]

ColumnFormatNew ==
    [name |-> <<>>, display_name |-> <<>>, min_width |-> None, max_width |-> None,
     format |-> None]

\* dfs/types.rs:31-36: the formats a column may declare.
Formats ==
    [kind : {"Number"}, fmt : NumberFormats] \cup [kind : {"Binary", "String"}, fmt : PlainFormats]

\* The widths of the column laid over a fresh formatter (types.rs:57-62, 77-82).
WithColumnWidths(self, fmt) ==
    [fmt EXCEPT
        !.min_width = IF self.min_width.some THEN self.min_width.value ELSE @,
        !.max_width = IF self.max_width.some THEN self.max_width.value ELSE @]

\* dfs/types.rs:52-70: ColumnFormat::number_format.
number_format(self) ==
    IF self.format.some /\ self.format.value.kind = "Number"
    THEN [tag |-> "Ok", fmt |-> self.format.value.fmt]
    ELSE IF ~self.format.some
    THEN [tag |-> "Ok", fmt |-> WithColumnWidths(self, NumberFormatNew)]
    ELSE [tag |-> "Err", error |-> "MismatchedFormatType"]

\* dfs/types.rs:72-90: ColumnFormat::binary_format.
binary_format(self) ==
    IF self.format.some /\ self.format.value.kind = "Binary"
    THEN [tag |-> "Ok", fmt |-> self.format.value.fmt]
    ELSE IF ~self.format.some
    THEN [tag |-> "Ok", fmt |-> WithColumnWidths(self, BinaryFormatNew)]
    ELSE [tag |-> "Err", error |-> "MismatchedFormatType"]

\* The names handed to name and display_name.
Names == { <<>>, <<"a">>, <<"a", "_", "b">> }

\* name overwriting the display name whatever it holds.
SetNameAlways(self, name) == [self EXCEPT !.name = name, !.display_name = name]

\* dfs/types.rs:99-106: ColumnFormat::name.
SetName(self, name) ==
    [self EXCEPT !.name = name,
                 !.display_name = IF self.display_name = <<>> THEN name ELSE @]

\* dfs/types.rs:108-111: ColumnFormat::display_name.
SetDisplayName(self, display_name) == [self EXCEPT !.display_name = display_name]

\* dfs/types.rs:113-116: ColumnFormat::newline_underscores.
NewlineUnderscores(self) ==
    [self EXCEPT !.display_name =
        [i \in 1..Len(self.display_name) |->
            IF self.display_name[i] = "_" THEN "\n" ELSE self.display_name[i]]]

\* dfs/types.rs:118-121: ColumnFormat::min_width.
SetMinWidth(self, min_width) == [self EXCEPT !.min_width = Some(min_width)]

\* dfs/types.rs:123-126: ColumnFormat::no_min_width.
NoMinWidth(self) == [self EXCEPT !.min_width = None]

\* dfs/types.rs:128-131: ColumnFormat::max_width.
SetMaxWidth(self, max_width) == [self EXCEPT !.max_width = Some(max_width)]

\* dfs/types.rs:133-136: ColumnFormat::no_max_width.
NoMaxWidth(self) == [self EXCEPT !.max_width = None]

\* ------------------------------------------------------------ state
VARIABLES
    format_spec,   \* format: the resolved FormatSpec of the pattern
    input,         \* format: input_f64, its sign bit and magnitude
    pc,            \* format: "call" before the call, then "done" or "panic"
    locals,        \* format: the locals at the return
    output,        \* format: the String returned
    shorthand,     \* a CellFormatShorthand under construction
    cell,          \* the Result of finalize on it
    column,        \* a ColumnFormat under construction
    last           \* the last call made on them: op, arg and the value returned

vars == <<format_spec, input, pc, locals, output, shorthand, cell, column, last>>

render_vars == <<format_spec, input, pc, locals, output>>

format_vars == <<shorthand, cell, column, last>>

NoLocals == [panic |-> FALSE, rendered |-> <<>>, value_is_negative |-> FALSE,
             sign_prefix |-> <<>>, leading_part |-> <<>>, prefix |-> <<>>,
             value |-> <<>>, suffix |-> <<>>, padding |-> <<>>, output |-> <<>>]

\* No object of the kind has been built.
NoObject == [kind |-> "none"]

NoCall == [op |-> "none", arg |-> <<>>, ret |-> <<>>]

\* No call of format is under way.
RenderIdle ==
    /\ format_spec = [fill |-> "*", align |-> ">", sign |-> "-", symbol |-> "",
                      zero |-> FALSE, width |-> 0, grouping |-> FALSE,
                      precision |-> 0, format_type |-> ""]
    /\ input = [neg |-> FALSE, mag |-> [ip |-> <<0>>, fp |-> <<>>]]
    /\ pc = "idle"
    /\ locals = NoLocals
    /\ output = <<>>

\* format is called with any resolved specifier and any input.
Init ==
    /\ format_spec \in FormatSpecs
    /\ input \in Inputs
    /\ pc = "call"
    /\ locals = NoLocals
    /\ output = <<>>
    /\ shorthand = NoObject
    /\ cell = NoObject
    /\ column = NoObject
    /\ last = NoCall

\* format(pattern, input) runs to its return or to a panic.
Format ==
    /\ pc = "call"
    /\ locals' = Render(format_spec, input)
    /\ pc' = IF locals'.panic THEN "panic" ELSE "done"
    /\ output' = locals'.output
    /\ UNCHANGED <<format_spec, input>>
    /\ UNCHANGED format_vars

Next == Format

Spec == Init /\ [][Next]_vars

\* ------------------------------------- cell and column format calls
\* A shorthand of any kind, or a column built by ColumnFormat::new() with
\* the format its dataset declares.
InitFormats ==
    /\ RenderIdle
    /\ cell = NoObject
    /\ last = NoCall
    /\ \/ shorthand \in Shorthands /\ column = NoObject
       \/ /\ shorthand = NoObject
          /\ column \in {[ColumnFormatNew EXCEPT !.format = f] :
                            f \in {None} \cup {Some(v) : v \in Formats}}

CallShorthandMinWidth(n) ==
    /\ shorthand # NoObject
    /\ shorthand' = ShorthandSetMinWidth(shorthand, n)
    /\ last' = [op |-> "shorthand.min_width", arg |-> n, ret |-> shorthand']
    /\ UNCHANGED <<cell, column>>
    /\ UNCHANGED render_vars

CallShorthandMaxWidth(n) ==
    /\ shorthand # NoObject
    /\ shorthand' = ShorthandSetMaxWidth(shorthand, n)
    /\ last' = [op |-> "shorthand.max_width", arg |-> n, ret |-> shorthand']
    /\ UNCHANGED <<cell, column>>
    /\ UNCHANGED render_vars

CallFinalize(dtype) ==
    /\ shorthand # NoObject
    /\ cell' = finalize(shorthand, dtype)
    /\ last' = [op |-> "finalize", arg |-> dtype, ret |-> cell']
    /\ UNCHANGED <<shorthand, column>>
    /\ UNCHANGED render_vars

\* target is the formatter type the caller asks the CellFormat for.
CallTryInto(target) ==
    /\ cell # NoObject
    /\ cell.tag = "Ok"
    /\ last' = [op |-> "try_into", arg |-> target, ret |-> try_into(cell, target)]
    /\ UNCHANGED <<shorthand, cell, column>>
    /\ UNCHANGED render_vars

\* A builder call on the column: the column it returns replaces it.
Builder(op, arg, result) ==
    /\ column # NoObject
    /\ column' = result
    /\ last' = [op |-> op, arg |-> arg, ret |-> result]
    /\ UNCHANGED <<shorthand, cell>>
    /\ UNCHANGED render_vars

CallName(n) == Builder("name", n, SetName(column, n))

CallDisplayName(n) == Builder("display_name", n, SetDisplayName(column, n))

CallNewlineUnderscores == Builder("newline_underscores", <<>>, NewlineUnderscores(column))

CallMinWidth(n) == Builder("min_width", n, SetMinWidth(column, n))

CallNoMinWidth == Builder("no_min_width", <<>>, NoMinWidth(column))

CallMaxWidth(n) == Builder("max_width", n, SetMaxWidth(column, n))

CallNoMaxWidth == Builder("no_max_width", <<>>, NoMaxWidth(column))

CallNumberFormat ==
    /\ column # NoObject
    /\ last' = [op |-> "number_format", arg |-> <<>>, ret |-> number_format(column)]
    /\ UNCHANGED <<shorthand, cell, column>>
    /\ UNCHANGED render_vars

CallBinaryFormat ==
    /\ column # NoObject
    /\ last' = [op |-> "binary_format", arg |-> <<>>, ret |-> binary_format(column)]
    /\ UNCHANGED <<shorthand, cell, column>>
    /\ UNCHANGED render_vars

NextFormats ==
    \/ \E n \in Widths : CallShorthandMinWidth(n)
    \/ \E n \in Widths : CallShorthandMaxWidth(n)
    \/ \E dtype \in DataTypes : CallFinalize(dtype)
    \/ \E target \in {"Number", "String", "Binary", "Bool"} : CallTryInto(target)
    \/ \E n \in Names : CallName(n)
    \/ \E n \in Names : CallDisplayName(n)
    \/ CallNewlineUnderscores
    \/ \E n \in Widths : CallMinWidth(n)
    \/ CallNoMinWidth
    \/ \E n \in Widths : CallMaxWidth(n)
    \/ CallNoMaxWidth
    \/ CallNumberFormat
    \/ CallBinaryFormat

SpecFormats == InitFormats /\ [][NextFormats]_vars

\* ----------------------------------------------------------- claims
\* The input was negative and format dropped its sign.
Discarded == input.neg /\ ~locals.value_is_negative

\* The rendered numeric text reads back as zero.
RenderedZero == ParseF64(locals.rendered) = "zero"

RadixTypes == {"b", "o", "O", "x", "X"}

\* The input compares >= 0: its sign bit is clear or it is negative zero.
NonNegativeInput ==
    ~input.neg \/ (input.mag.ip = <<0>> /\ \A i \in 1..Len(input.mag.fp) : input.mag.fp[i] = 0)

\* The magnitude truncates to the integer 0.
TruncatesToZero == input.mag.ip = <<0>>

\* The length of sign, radix prefix, digits (grouped if asked) and suffix.
NaturalLength ==
    LET digits == SplitValue(locals.rendered).value
    IN  Len(locals.sign_prefix) + Len(locals.leading_part)
        + Len(IF format_spec.grouping THEN group_value(digits, 0) ELSE digits)
        + Len(locals.suffix)

\* C1 as stated: the sign of a negative input is dropped exactly when the
\* rendered text reads back as 0 under the "-" policy for a non-radix type,
\* and under "+" or " " such an input still renders with "-".
C1_HiddenOnlyUnderNegativeOnly ==
    pc = "done" =>
        /\ Discarded <=> /\ input.neg
                         /\ RenderedZero
                         /\ format_spec.sign = "-"
                         /\ format_spec.format_type \notin RadixTypes
        /\ (input.neg /\ RenderedZero /\ format_spec.sign \in {"+", " "})
              => locals.sign_prefix = <<"-">>

\* C1 amended: the sign of a negative input is dropped exactly when the
\* rendered text reads back as 0, the policy is not "+", and the type is
\* neither x nor X; format(".0f", -0.04) is "0"; under "+" a negative input
\* always renders with "-", and under " " a dropped sign renders as a space.
C1_HiddenUnlessAlways ==
    pc = "done" =>
        /\ Discarded <=> /\ input.neg
                         /\ RenderedZero
                         /\ format_spec.sign # "+"
                         /\ format_spec.format_type \notin {"x", "X"}
        /\ (input.neg /\ format_spec.sign = "+") => locals.sign_prefix = <<"-">>
        /\ (Discarded /\ format_spec.sign = " ") => locals.sign_prefix = <<" ">>
        /\ (/\ format_spec.format_type = "f" /\ format_spec.precision = 0
            /\ format_spec.sign = "-" /\ format_spec.symbol = ""
            /\ format_spec.width = 0 /\ ~format_spec.grouping
            /\ input = [neg |-> TRUE, mag |-> [ip |-> <<0>>, fp |-> <<0, 4>>]])
              => output = <<"0">>

\* A negative input that rounds to zero under the " " policy came out with
\* a space for its sign.
C1_Witness ==
    /\ pc = "done" /\ input.neg /\ RenderedZero /\ format_spec.sign = " "
    /\ ~locals.value_is_negative
    /\ locals.sign_prefix = <<" ">>

\* C2: for an input >= 0 (negative zero included) of any type, the sign
\* glyph chosen under the "-" policy is never "-".
C2_NoMinusForNonNegative ==
    (pc = "done" /\ format_spec.sign = "-" /\ NonNegativeInput)
        => locals.sign_prefix # <<"-">>

C4_LowercaseRadixPrefix ==
    pc = "done" =>
        /\ locals.leading_part =
              IF format_spec.symbol = "#"
              THEN CASE format_spec.format_type = "b" -> <<"0", "b">>
                     [] format_spec.format_type \in {"o", "O"} -> <<"0", "o">>
                     [] format_spec.format_type \in {"x", "X"} -> <<"0", "x">>
                     [] OTHER -> <<>>
              ELSE <<>>
        /\ locals.prefix = locals.sign_prefix \o locals.leading_part

\* C5 as stated: for every radix type a negative input that truncates to 0
\* keeps its sign and renders with "-" under every policy.
C5_RadixKeepsSign ==
    (/\ pc = "done" /\ format_spec.format_type \in RadixTypes
     /\ input.neg /\ TruncatesToZero)
        => (locals.value_is_negative /\ locals.sign_prefix = <<"-">>)

\* C5 amended: for the hex types x and X a negative input keeps its sign
\* and renders with "-" under every policy; for the binary and octal types
\* a negative input that truncates to 0 keeps it under the "+" policy only.
C5_HexKeepsSign ==
    /\ (pc = "done" /\ format_spec.format_type \in {"x", "X"} /\ input.neg)
          => (locals.value_is_negative /\ locals.sign_prefix = <<"-">>)
    /\ (/\ pc = "done" /\ format_spec.format_type \in {"b", "o", "O"}
        /\ input.neg /\ TruncatesToZero)
          => (locals.value_is_negative <=> format_spec.sign = "+")

\* A negative input truncating to 0 came out of the X type with its "-".
C5_Witness ==
    /\ pc = "done" /\ format_spec.format_type = "X" /\ format_spec.sign = "-"
    /\ input.neg /\ TruncatesToZero
    /\ locals.sign_prefix = <<"-">>

\* C6: format returns for every resolved specifier and every finite input;
\* it never panics.
C6_NeverPanics == pc # "panic"

\* C9: the output is the concatenation the alignment fixes, a centred value
\* taking floor(n/2) padding characters in front; with sign-aware alignment
\* and zero-fill the output starts with the sign and radix prefix.
C9_AssembledByAlignment ==
    pc = "done" =>
        LET prefix == locals.sign_prefix \o locals.leading_part
            body   == prefix \o locals.value \o locals.suffix
            n      == Len(locals.padding)
        IN  /\ format_spec.align = "<" => output = body \o locals.padding
            /\ format_spec.align = "=" =>
                  output = prefix \o locals.padding \o locals.value \o locals.suffix
            /\ format_spec.align = ">" => output = locals.padding \o body
            /\ format_spec.align = "^" =>
                  output = SubSeq(locals.padding, 1, n \div 2) \o body
                           \o SubSeq(locals.padding, n \div 2 + 1, n)
            /\ (format_spec.align = "=" /\ format_spec.zero) =>
                  SubSeq(output, 1, Len(prefix)) = prefix

\* A signed value was centred in an odd number of padding characters.
C9_Witness ==
    /\ pc = "done" /\ format_spec.align = "^"
    /\ Len(locals.padding) = 3
    /\ locals.sign_prefix # <<>>

\* C7: a CellFormat turns into the formatter asked for, unchanged, exactly
\* when it is of that kind, and into MismatchedFormatType otherwise;
\* number_format and binary_format fail with MismatchedFormatType whenever
\* the column declares a format of another kind.
C7_MismatchIsTypedError ==
    /\ last.op = "try_into" =>
          IF cell.kind = last.arg
          THEN last.ret = [tag |-> "Ok", fmt |-> cell.fmt]
          ELSE last.ret = [tag |-> "Err", error |-> "MismatchedFormatType"]
    /\ (last.op = "number_format" /\ column.format.some) =>
          IF column.format.value.kind = "Number"
          THEN last.ret = [tag |-> "Ok", fmt |-> column.format.value.fmt]
          ELSE last.ret = [tag |-> "Err", error |-> "MismatchedFormatType"]
    /\ (last.op = "binary_format" /\ column.format.some) =>
          IF column.format.value.kind = "Binary"
          THEN last.ret = [tag |-> "Ok", fmt |-> column.format.value.fmt]
          ELSE last.ret = [tag |-> "Err", error |-> "MismatchedFormatType"]

\* A CellFormat was asked for a formatter of another kind.
C7_Witness ==
    /\ last.op = "try_into" /\ cell.kind # last.arg
    /\ last.ret.tag = "Err"

\* C8: finalize resolves an Unknown shorthand by the dtype alone (Utf8 to
\* String, Boolean to Bool, Binary to Binary, an integer type to Number
\* with Decimal type and precision 0, a float type to Number with Exponent
\* type, anything else to UnsupportedDatatype) and hands a concrete
\* shorthand on as the CellFormat of its own kind whatever the dtype.
C8_FinalizeByKindThenDtype ==
    last.op = "finalize" =>
        IF shorthand.kind # "Unknown"
        THEN last.ret = [tag |-> "Ok", kind |-> shorthand.kind, fmt |-> shorthand.fmt]
        ELSE CASE last.arg = "Utf8" -> last.ret.tag = "Ok" /\ last.ret.kind = "String"
               [] last.arg = "Boolean" -> last.ret.tag = "Ok" /\ last.ret.kind = "Bool"
               [] last.arg = "Binary" -> last.ret.tag = "Ok" /\ last.ret.kind = "Binary"
               [] last.arg \in {"Int8", "Int64", "UInt32"} ->
                     /\ last.ret.tag = "Ok" /\ last.ret.kind = "Number"
                     /\ last.ret.fmt.format_type = "Decimal"
                     /\ last.ret.fmt.precision = 0
               [] last.arg \in {"Float32", "Float64"} ->
                     /\ last.ret.tag = "Ok" /\ last.ret.kind = "Number"
                     /\ last.ret.fmt.format_type = "Exponent"
               [] OTHER -> last.ret = [tag |-> "Err", error |-> "UnsupportedDatatype"]

\* A concrete shorthand was finalized against a dtype of another kind.
C8_Witness ==
    /\ last.op = "finalize" /\ shorthand.kind = "Number" /\ last.arg = "Utf8"
    /\ last.ret.tag = "Ok"

\* C10: a name call sets name, and sets display_name only if it was empty;
\* every builder call leaves the fields it does not name as they were.
C10_BuilderFrame ==
    [][ /\ last'.op = "name" =>
              /\ column'.name = last'.arg
              /\ column'.display_name =
                    IF column.display_name = <<>> THEN last'.arg ELSE column.display_name
              /\ column'.min_width = column.min_width
              /\ column'.max_width = column.max_width
              /\ column'.format = column.format
        /\ last'.op \in {"display_name", "newline_underscores"} =>
              /\ column'.name = column.name
              /\ column'.min_width = column.min_width
              /\ column'.max_width = column.max_width
              /\ column'.format = column.format
        /\ last'.op \in {"min_width", "no_min_width"} =>
              /\ column'.name = column.name
              /\ column'.display_name = column.display_name
              /\ column'.max_width = column.max_width
              /\ column'.format = column.format
        /\ last'.op \in {"max_width", "no_max_width"} =>
              /\ column'.name = column.name
              /\ column'.display_name = column.display_name
              /\ column'.min_width = column.min_width
              /\ column'.format = column.format ]_vars

\* A name call left a display name that was already set as it was.
C10_Witness ==
    /\ last.op = "name" /\ last.arg # <<>>
    /\ column.name = last.arg
    /\ column.display_name # <<>>
    /\ column.display_name # column.name
====
